---- MODULE Spec2Model ----
(***************************************************************************)
(* Message routing and human hand-off of the WhatsApp bot.                 *)
(*                                                                         *)
(* Two specifications share the store:                                     *)
(*   Spec    MessageRouter (app/services/message_router.py): user and      *)
(*           advisor events handled by concurrent workers, one step per    *)
(*           database round trip or awaited provider call.                 *)
(*   SpecHS  HumanSupportService (app/services/human_support_service.py):  *)
(*           request_human_support and handle_agent_message over           *)
(*           conversations that already exist.                             *)
(* Every session is created with expire_on_commit=False                    *)
(* (app/db/session.py), so a handler keeps the attribute values it loaded  *)
(* and a commit writes only the attributes it changed.                     *)
(***************************************************************************)
EXTENDS Integers, Sequences, FiniteSets, TLC

\* ---------------------------------------------------------------- bounds
MaxUserEvents == 2
MaxAdvisorEvents == 1
MaxHsEvents == 5

\* ------------------------------------------------------------ static data
None == "none"

Workers == {"w1", "w2"}

\* (business_id, sender phone) pairs of the user events
UserKeys == {<<"b1", "p1">>, <<"b1", "p2">>, <<"b2", "p1">>}

\* the raw sender field of a payload: the phone, possibly inside white space
RawPhone(ph) == {ph, " " \o ph, ph \o " "}

\* advisors table (app/models/advisor.py); created_at orders the rows
Advisors ==
    { [id |-> "adv0", business |-> "b1", phone |-> "ap0", is_active |-> FALSE, created_at |-> 1],
      [id |-> "adv1", business |-> "b1", phone |-> "ap1", is_active |-> TRUE, created_at |-> 2],
      [id |-> "adv2", business |-> "b1", phone |-> "ap2", is_active |-> TRUE, created_at |-> 3] }

NoAdvisor == [id |-> None, business |-> None, phone |-> None, is_active |-> FALSE, created_at |-> 0]

\* message texts
TxtHola == "hola"
TxtAsesor == "quiero hablar con un asesor"
TxtGracias == "gracias"
\* a message whose text is white space only
TxtBlank == " "
UserTexts == {TxtHola, TxtAsesor, TxtGracias, TxtBlank}
\* the texts of a longer exchange: a booking and its confirmation as well
LoopTexts == UserTexts \cup {"reservar", "si"}

VARIABLES users, convs, msgs, sent, lastResp, flowState, requestIds, requests,
          pc, loc, count

vars == <<users, convs, msgs, sent, lastResp, flowState, requestIds, requests,
          pc, loc, count>>

storeVars == <<users, convs, msgs>>
flowVars == <<flowState, requestIds, requests>>

Phones == {k[2] : k \in UserKeys}

\* events are numbered in the order their handling begins
NextEv == count.user + count.advisor + count.hs + 1

\* ------------------------------------------------------------ pure helpers
Min(S) == CHOOSE x \in S : \A y \in S : x <= y
Max(S) == CHOOSE x \in S : \A y \in S : x >= y

\* the i-th character of a string, "" outside it
Char(s, i) == IF i \in 1..Len(s) THEN SubSeq(s, i, i) ELSE ""

WhiteSpace == {" "}

RECURSIVE LStrip(_)
LStrip(s) == IF Char(s, 1) \in WhiteSpace THEN LStrip(SubSeq(s, 2, Len(s))) ELSE s

RECURSIVE RStrip(_)
RStrip(s) ==
    IF Char(s, Len(s)) \in WhiteSpace THEN RStrip(SubSeq(s, 1, Len(s) - 1)) ELSE s

\* str(value).strip()
Strip(s) == RStrip(LStrip(s))

UpperCase == "ABCDEFGHIJKLMNOPQRSTUVWXYZ"
LowerCase == "abcdefghijklmnopqrstuvwxyz"

LowerChar(c) ==
    IF \E i \in 1..Len(UpperCase) : Char(UpperCase, i) = c
    THEN Char(LowerCase, CHOOSE i \in 1..Len(UpperCase) : Char(UpperCase, i) = c)
    ELSE c

\* str.lower
RECURSIVE Lower(_)
Lower(s) == IF s = "" THEN "" ELSE LowerChar(Char(s, 1)) \o Lower(SubSeq(s, 2, Len(s)))

\* MessageRouter._extract_sender_phone: the stripped value, None when it is blank
ExtractSenderPhone(raw) == IF Strip(raw) = "" THEN None ELSE Strip(raw)

\* ------------------------------------------------------------ IntentEngine
Intents == {"greeting", "info_request", "availability_request", "booking_intent",
            "confirmation", "cancellation", "human_handoff"}

\* IntentEngine._intent_keywords. The texts are ASCII; a keyword written with a
\* diacritic never occurs in a normalized text and is left out.
IntentKeywords ==
    [greeting |->
        {"hola", "hello", "hi", "buenas", "buenos dias", "buenas tardes",
         "buenas noches", "que tal", "como va", "como estas", "todo bien",
         "saludos", "ey", "hey", "holaa", "holis", "buenas!"},
     info_request |->
        {"servicio", "servicios", "producto", "productos", "plan", "planes",
         "precio", "precios", "costo", "costos", "valor", "cuanto cuesta",
         "cuanto sale", "catalogo", "informacion", "info", "detalles", "mas info",
         "quiero informacion", "me podes informar", "que ofrecen", "que incluye",
         "como funciona", "de que se trata", "explicame"},
     availability_request |->
        {"disponibilidad", "disponible", "hay cupo", "tienen cupo", "queda lugar",
         "hay lugar", "stock", "hay stock", "les queda", "horario", "horarios",
         "a que hora", "cuando atienden", "dias de atencion", "turno", "turnos",
         "agenda", "esta libre", "puedo pasar", "puedo ir"},
     booking_intent |->
        {"reservar", "reserva", "agendar", "agendo", "quiero reservar",
         "quiero agendar", "sacar turno", "pedir cita", "cita", "contratar",
         "comprar", "quiero comprar", "me interesa", "interesado", "interesada",
         "quiero avanzar", "quiero contratar", "como contrato",
         "quiero el servicio", "quiero ese plan", "lo quiero", "lo llevo",
         "me lo quedo", "vamos con eso"},
     confirmation |->
        {"si", "confirmo", "confirmar", "correcto", "ok", "oki", "okey", "dale",
         "de una", "perfecto", "genial", "listo", "adelante", "aceptar",
         "esta bien", "me sirve"},
     cancellation |->
        {"cancelar", "cancela", "anular", "anula", "detener", "stop", "olvida",
         "olvidalo", "salir", "no quiero", "ya no", "me arrepenti",
         "no me interesa", "no gracias", "dejalo"},
     human_handoff |->
        {"asesor", "agente", "humano", "persona", "representante", "soporte",
         "operador", "hablar con alguien", "hablar con una persona",
         "atencion humana", "quiero hablar con alguien", "pasame con alguien",
         "pasame con un asesor", "necesito ayuda", "me podes atender"}]

PriorityOrder == <<"human_handoff", "cancellation", "confirmation", "booking_intent",
                   "availability_request", "info_request", "greeting", "fallback">>

\* re.sub(r"\s+", " ", ...): a run of white space becomes one space
RECURSIVE CollapseSpaces(_)
CollapseSpaces(s) ==
    IF s = "" THEN ""
    ELSE IF Char(s, 1) \in WhiteSpace
         THEN IF Char(s, 2) \in WhiteSpace
              THEN CollapseSpaces(SubSeq(s, 2, Len(s)))
              ELSE " " \o CollapseSpaces(SubSeq(s, 2, Len(s)))
         ELSE Char(s, 1) \o CollapseSpaces(SubSeq(s, 2, Len(s)))

\* IntentEngine._normalize_text: lower case, stripped, combining marks removed
\* (none in an ASCII text), white space collapsed
NormalizeText(message) == CollapseSpaces(Strip(Lower(message)))

\* the characters the regular expression class \w matches
WordChars ==
    {Char(LowerCase, i) : i \in 1..Len(LowerCase)}
        \cup {Char(UpperCase, i) : i \in 1..Len(UpperCase)}
        \cup {"0", "1", "2", "3", "4", "5", "6", "7", "8", "9", "_"}

\* \b between the characters p and p + 1 of text
WordBoundary(text, p) == (Char(text, p) \in WordChars) # (Char(text, p + 1) \in WordChars)

\* a matcher that knows single tokens only: a phrase never matches
KeywordAsToken(text, keyword) ==
    \E i \in 1..(Len(text) - Len(keyword) + 1) :
        /\ SubSeq(text, i, i + Len(keyword) - 1) = keyword
        /\ \A j \in 1..Len(keyword) : Char(keyword, j) # " "
        /\ WordBoundary(text, i - 1)
        /\ WordBoundary(text, i + Len(keyword) - 1)

\* IntentEngine._keyword_in_text: a phrase matches as a substring, a single
\* token only between word boundaries
KeywordInText(text, keyword) ==
    \E i \in 1..(Len(text) - Len(keyword) + 1) :
        /\ SubSeq(text, i, i + Len(keyword) - 1) = keyword
        /\ \/ \E j \in 1..Len(keyword) : Char(keyword, j) = " "
           \/ /\ WordBoundary(text, i - 1)
              /\ WordBoundary(text, i + Len(keyword) - 1)

\* IntentEngine._count_matches
CountMatches(text, keywords) == Cardinality({k \in keywords : KeywordInText(text, k)})

\* a classifier that recognises nothing
detect_nothing(text) == "fallback"

\* a classifier that returns the first intent of the priority order with any match
detect_by_priority(message) ==
    LET text == NormalizeText(message)
        hit == {n \in 1..Len(PriorityOrder) :
                   /\ PriorityOrder[n] \in Intents
                   /\ CountMatches(text, IntentKeywords[PriorityOrder[n]]) > 0}
    IN  IF hit = {} THEN "fallback" ELSE PriorityOrder[Min(hit)]

\* IntentEngine.detect_intent
detect_intent(message) ==
    LET text == NormalizeText(message)
        scores == [i \in Intents |-> CountMatches(text, IntentKeywords[i])]
        best == Max({scores[i] : i \in Intents} \cup {0})
        tied == {i \in Intents : scores[i] = best}
    IN  IF best = 0 THEN "fallback"
        ELSE PriorityOrder[Min({n \in 1..Len(PriorityOrder) : PriorityOrder[n] \in tied})]

\* ------------------------------------------------------------- FlowManager
\* FlowManager.handle: the reply, None meaning "defer to the AI provider"
FlowResponse(intent, state) ==
    CASE intent = "greeting" -> "welcome"
      [] intent = "info_request" -> "catalog"
      [] intent = "availability_request" -> "availability"
      [] intent = "booking_intent" -> "collect_prompt"
      [] intent = "confirmation" ->
            IF state \in {"collecting_data", "awaiting_confirmation"}
            THEN "advisor_will_validate" ELSE "nothing_pending"
      [] intent = "cancellation" -> "cancelled_msg"
      [] OTHER -> None

\* ConversationManager.get_state: an absent entry is created as idle
GetState(fs, user) == IF fs[user] = None THEN "idle" ELSE fs[user]

\* a flow that takes every confirmation as valid
FlowStateAfterAnyConfirm(intent, fs, user) ==
    CASE intent = "booking_intent" -> [fs EXCEPT ![user] = "collecting_data"]
      [] intent = "confirmation" -> [fs EXCEPT ![user] = "pending_human_validation"]
      [] intent = "cancellation" -> [fs EXCEPT ![user] = "cancelled"]
      [] OTHER -> [fs EXCEPT ![user] = GetState(fs, user)]

\* a flow in which a booking starts data collection only from idle
FlowStateAfterIdleOnly(intent, fs, user) ==
    CASE intent = "booking_intent" /\ GetState(fs, user) = "idle" ->
            [fs EXCEPT ![user] = "collecting_data"]
      [] intent = "confirmation" /\ GetState(fs, user) \in {"collecting_data", "awaiting_confirmation"} ->
            [fs EXCEPT ![user] = "pending_human_validation"]
      [] intent = "cancellation" -> [fs EXCEPT ![user] = "cancelled"]
      [] OTHER -> [fs EXCEPT ![user] = GetState(fs, user)]

\* a flow in which a greeting starts the user over from idle
FlowStateAfterGreetingResets(intent, fs, user) ==
    CASE intent = "booking_intent" -> [fs EXCEPT ![user] = "collecting_data"]
      [] intent = "confirmation" /\ GetState(fs, user) \in {"collecting_data", "awaiting_confirmation"} ->
            [fs EXCEPT ![user] = "pending_human_validation"]
      [] intent = "cancellation" -> [fs EXCEPT ![user] = "cancelled"]
      [] intent = "greeting" -> [fs EXCEPT ![user] = "idle"]
      [] OTHER -> [fs EXCEPT ![user] = GetState(fs, user)]

\* FlowManager.handle: the flow state it leaves for the user
FlowStateAfter(intent, fs, user) ==
    CASE intent = "booking_intent" -> [fs EXCEPT ![user] = "collecting_data"]
      [] intent = "confirmation" /\ GetState(fs, user) \in {"collecting_data", "awaiting_confirmation"} ->
            [fs EXCEPT ![user] = "pending_human_validation"]
      [] intent = "cancellation" -> [fs EXCEPT ![user] = "cancelled"]
      [] OTHER -> [fs EXCEPT ![user] = GetState(fs, user)]

\* a flow that confirms the user's request itself
FlowManagerAutoConfirm(intent, user) ==
    /\ flowState' = [flowState EXCEPT ![user] =
                        IF intent = "confirmation" THEN "completed" ELSE @]
    /\ requests' = [i \in 1..Len(requests) |->
                        IF intent = "confirmation" /\ i = requestIds[user]
                        THEN [requests[i] EXCEPT !.status = "confirmed"]
                        ELSE requests[i]]
    /\ UNCHANGED requestIds

\* FlowManager.handle lines 37-73: what handling an intent does to the flow
\* state, the stored request ids and the data source's requests
FlowManagerHandle(intent, user) ==
    /\ flowState' = FlowStateAfter(intent, flowState, user)
    /\ IF intent = "booking_intent"
       THEN /\ requests' = Append(requests, [user |-> user, status |-> "pending"])
            /\ requestIds' = [requestIds EXCEPT ![user] = Len(requests) + 1]
       ELSE UNCHANGED <<requests, requestIds>>

\* ---------------------------------------------------------------- store
NoRow == [business |-> None, user |-> 0, status |-> None, control_mode |-> None,
          human_status |-> None, assigned_agent_id |-> None,
          assigned_advisor_id |-> None, started_at |-> 0]

\* Conversation(...) as _get_or_create_active_conversation builds it
NewConversation(b, u, t) ==
    [business |-> b, user |-> u, status |-> "active", control_mode |-> "ai",
     human_status |-> None, assigned_agent_id |-> None,
     assigned_advisor_id |-> None, started_at |-> t]

\* the UPDATE a commit issues: only attributes changed since they were loaded
Flush(row, loaded, obj) ==
    [f \in DOMAIN row |-> IF obj[f] # loaded[f] THEN obj[f] ELSE row[f]]

UserIds(b, ph) == {i \in 1..Len(users) : users[i].business = b /\ users[i].phone = ph}

\* uq_users_business_external_id
UserConflict(b, ext) ==
    \E i \in 1..Len(users) : users[i].business = b /\ users[i].external_id = ext

ActiveConvIds(b, u) ==
    {i \in 1..Len(convs) :
        convs[i].business = b /\ convs[i].user = u /\ convs[i].status = "active"}

\* uq_conversations_active_user: unique (business_id, user_id) where status = 'active'
ConvConflict(b, u) == ActiveConvIds(b, u) # {}

\* Message(...) as _persist_message builds it
NewMessage(c, sender, direction, content, ev) ==
    [conv |-> c, sender_type |-> sender, direction |-> direction,
     content |-> content, ev |-> ev]

NoLoc == [ev |-> 0, business |-> None, phone |-> None, text |-> "", user |-> 0,
          conv |-> 0, snap |-> NoRow, intent |-> None, resp |-> None,
          adv |-> NoAdvisor, target |-> None, agent |-> None, next |-> 0,
          ret |-> None, ctx |-> None]


\* ------------------------------------------------- MessageRouter, user path
Goto(w, label) == pc' = [pc EXCEPT ![w] = label]
\* the handler returns or raises: the worker is free again ("label" names how it ended)
Finish(w, label) == /\ pc' = [pc EXCEPT ![w] = "idle"]
                    /\ loc' = [loc EXCEPT ![w] = NoLoc]

\* workers are interchangeable: a free w2 takes an event only while w1 is busy
MayBegin(w) == pc[w] = "idle" /\ (w = "w2" => pc["w1"] # "idle")

\* _extract_sender_phone lines 289-293: a missing or blank sender is a ValueError
ValidSender(raw) == Strip(raw) # ""

\* _extract_required_uuid lines 304-311: a missing or malformed business_id
\* is a ValueError
ValidBusiness(b) == b \in {k[1] : k \in UserKeys}

\* payloads that route_message rejects before it touches the store
BadEvents == {[business |-> "b1", raw |-> " "],
              [business |-> None, raw |-> "p1"],
              [business |-> "not-a-uuid", raw |-> "p1"]}

\* route_message lines 50 and 79: the event is rejected with a validation error
RejectEvent(w) ==
    /\ MayBegin(w)
    /\ count.user < MaxUserEvents
    /\ \E e \in BadEvents : ~ValidSender(e.raw) \/ ~ValidBusiness(e.business)
    /\ count' = [count EXCEPT !.user = @ + 1]
    /\ UNCHANGED <<storeVars, sent, lastResp, flowVars, pc, loc>>

\* _extract_message_text lines 295-302: the stripped text, empty when missing
ExtractMessageText(t) == Strip(t)

\* route_message for a user sender: the sender phone is extracted and stripped,
\* the sender resolved as "user", business_id parsed (lines 50-79) and the user
\* looked up, the SELECT of _get_or_create_user (lines 494-501)
BeginUserFrom(w, bound, texts) ==
    /\ MayBegin(w)
    /\ count.user < bound
    /\ \E k \in UserKeys, t \in texts :
        \E raw \in RawPhone(k[2]) :
            LET ph == ExtractSenderPhone(raw)
                found == UserIds(k[1], ph)
                l == [NoLoc EXCEPT !.ev = NextEv, !.business = k[1],
                                   !.phone = ph, !.text = t, !.ret = "persist_inbound"]
            IN  IF found # {}
                THEN /\ loc' = [loc EXCEPT ![w] = [l EXCEPT !.user = Min(found)]]
                     /\ Goto(w, "conv_read")
                ELSE /\ loc' = [loc EXCEPT ![w] = l]
                     /\ Goto(w, "user_insert")
    /\ count' = [count EXCEPT !.user = @ + 1]
    /\ UNCHANGED <<storeVars, sent, lastResp, flowVars>>

\* route_message for a user sender, on the events of the interleaved handlers
BeginUser(w) == BeginUserFrom(w, MaxUserEvents, UserTexts)

\* a store without the unique constraint on users
UserInsertNeverRejected(b, ext) == FALSE

\* does the INSERT of a users row violate uq_users_business_external_id
UserInsertRejected(b, ext) == UserConflict(b, ext)

\* _get_or_create_user: db.add(user); db.commit() (lines 503-515, 521-522)
UserInsert(w) ==
    /\ pc[w] = "user_insert"
    /\ IF UserInsertRejected(loc[w].business, loc[w].phone)
       THEN /\ Goto(w, "user_reread")
            /\ UNCHANGED <<users, loc>>
       ELSE /\ users' = Append(users, [business |-> loc[w].business,
                                       external_id |-> loc[w].phone,
                                       phone |-> loc[w].phone])
            /\ loc' = [loc EXCEPT ![w].user = Len(users) + 1]
            /\ Goto(w, "conv_read")
    /\ UNCHANGED <<convs, msgs, sent, lastResp, flowVars, count>>

\* _get_or_create_user: after the IntegrityError, rollback and re-read (lines 515-520)
UserReread(w) ==
    /\ pc[w] = "user_reread"
    /\ LET found == UserIds(loc[w].business, loc[w].phone)
       IN  IF found # {}
           THEN /\ loc' = [loc EXCEPT ![w].user = Min(found)]
                /\ Goto(w, "conv_read")
           ELSE Finish(w, "failed")
    /\ UNCHANGED <<storeVars, sent, lastResp, flowVars, count>>

\* _get_or_create_active_conversation: the SELECT (lines 319-326)
ConvRead(w) ==
    /\ pc[w] = "conv_read"
    /\ LET found == ActiveConvIds(loc[w].business, loc[w].user)
       IN  IF Cardinality(found) > 1
           THEN Finish(w, "failed")
           ELSE IF found # {}
           THEN /\ loc' = [loc EXCEPT ![w].conv = Min(found), ![w].snap = convs[Min(found)]]
                /\ Goto(w, loc[w].ret)
           ELSE /\ Goto(w, "conv_insert")
                /\ UNCHANGED loc
    /\ UNCHANGED <<storeVars, sent, lastResp, flowVars, count>>

\* a store without the partial unique index on conversations
ConvInsertNeverRejected(b, u) == FALSE

\* does the INSERT of an active conversations row violate uq_conversations_active_user
ConvInsertRejected(b, u) == ConvConflict(b, u)

\* _get_or_create_active_conversation: db.add; db.commit; db.refresh (lines 328-339, 345-346)
ConvInsert(w) ==
    /\ pc[w] = "conv_insert"
    /\ IF ConvInsertRejected(loc[w].business, loc[w].user)
       THEN /\ Goto(w, "conv_reread")
            /\ UNCHANGED <<convs, loc>>
       ELSE LET row == NewConversation(loc[w].business, loc[w].user, Len(convs) + 1)
            IN  /\ convs' = Append(convs, row)
                /\ loc' = [loc EXCEPT ![w].conv = Len(convs) + 1, ![w].snap = row]
                /\ Goto(w, loc[w].ret)
    /\ UNCHANGED <<users, msgs, sent, lastResp, flowVars, count>>

\* what the handler does when the re-read after a conflict finds no active row
ConvRereadMiss(w) == Finish(w, "failed")

\* _get_or_create_active_conversation: rollback and re-read (lines 339-344)
ConvReread(w) ==
    /\ pc[w] = "conv_reread"
    /\ LET found == ActiveConvIds(loc[w].business, loc[w].user)
       IN  IF Cardinality(found) > 1
           THEN Finish(w, "failed")
           ELSE IF found # {}
           THEN /\ loc' = [loc EXCEPT ![w].conv = Min(found), ![w].snap = convs[Min(found)]]
                /\ Goto(w, loc[w].ret)
           ELSE ConvRereadMiss(w)
    /\ UNCHANGED <<storeVars, sent, lastResp, flowVars, count>>

\* line 101: does the handler stop after persisting the inbound message
HumanOwned(snap) == snap.control_mode = "human"

\* line 104: detect_intent is a pure function of the message text; its values
\* on the texts of the user events
IntentOf == [t \in {ExtractMessageText(x) : x \in LoopTexts} |-> detect_intent(t)]

\* Conversation.context (models/conversation.py line 62) defaults to an empty
\* dict and no statement of the router or of the services writes it
StoredContext(snap) == "empty"

\* a context bag that leaves the detected intent out
AiContextNoIntent(l, intent) ==
    [user |-> l.phone, conversation_id |-> l.conv, business_id |-> l.snap.business,
     user_id |-> l.snap.user, control_mode |-> l.snap.control_mode,
     context |-> StoredContext(l.snap), intent |-> None, mode |-> "assisted"]

\* lines 144-153: the context bag given to the AI provider, built from the
\* conversation object the handler loaded (l is the handler's frame)
AiContext(l, intent) ==
    [user |-> l.phone, conversation_id |-> l.conv, business_id |-> l.snap.business,
     user_id |-> l.snap.user, control_mode |-> l.snap.control_mode,
     context |-> StoredContext(l.snap), intent |-> intent, mode |-> "assisted"]

\* _handle_user_message lines 90-105, 142: a missing text is a ValueError
\* (line 90); else the inbound message is persisted; the
\* handler stops when the loaded conversation is human-controlled, else classifies
\* the text and, unless it asks for a human, hands it to FlowManager.handle
PersistInbound(w) ==
    /\ pc[w] = "persist_inbound"
    /\ msgs' = IF ExtractMessageText(loc[w].text) = ""
               THEN msgs
               ELSE Append(msgs, NewMessage(loc[w].conv, "user", "inbound",
                                            ExtractMessageText(loc[w].text), loc[w].ev))
    /\ LET ph == loc[w].phone
           intent == IntentOf[ExtractMessageText(loc[w].text)]
           resp == FlowResponse(intent, GetState(flowState, ph))
       IN  IF ExtractMessageText(loc[w].text) = ""
           THEN /\ Finish(w, "rejected")
                /\ UNCHANGED flowVars
           ELSE IF HumanOwned(loc[w].snap)
           THEN /\ Finish(w, "done")
                /\ UNCHANGED flowVars
           ELSE IF intent = "human_handoff"
           THEN /\ loc' = [loc EXCEPT ![w].intent = intent]
                /\ Goto(w, "handoff")
                /\ UNCHANGED flowVars
           ELSE /\ FlowManagerHandle(intent, ph)
                /\ loc' = [loc EXCEPT ![w].intent = intent, ![w].resp = resp,
                                      ![w].ctx = IF resp = None
                                                 THEN AiContext(loc[w], intent)
                                                 ELSE None]
                /\ Goto(w, IF resp = None THEN "ai_call" ELSE "persist_reply")
    /\ UNCHANGED <<users, convs, sent, lastResp, count>>

\* a lookup that prefers the newest advisor
GetNewestActiveAdvisor(b) ==
    LET S == {a \in Advisors : a.business = b /\ a.is_active}
    IN  IF S = {} THEN NoAdvisor
        ELSE CHOOSE a \in S : \A x \in S : a.created_at >= x.created_at

\* _get_active_advisor: the earliest-created active advisor of the business
GetActiveAdvisor(b) ==
    LET S == {a \in Advisors : a.business = b /\ a.is_active}
    IN  IF S = {} THEN NoAdvisor
        ELSE CHOOSE a \in S : \A x \in S : a.created_at <= x.created_at

Outbound(to, text, about) == [to |-> to, text |-> text, about |-> about]

\* lines 106-114: the hand-off is committed to the conversation row
Handoff(w) ==
    /\ pc[w] = "handoff"
    /\ LET advisor == GetActiveAdvisor(loc[w].snap.business)
           obj == [loc[w].snap EXCEPT !.control_mode = "human",
                                      !.assigned_advisor_id = advisor.id]
       IN  /\ convs' = [convs EXCEPT ![loc[w].conv] = Flush(@, loc[w].snap, obj)]
           /\ loc' = [loc EXCEPT ![w].snap = obj, ![w].adv = advisor,
                                 ![w].resp = "handoff_notice"]
    /\ Goto(w, "handoff_reply")
    /\ UNCHANGED <<users, msgs, sent, lastResp, flowVars, count>>

\* lines 116-140: the hand-off notice is persisted as an assistant message, sent to
\* the user and recorded as last response; an advisor with a phone is then told
\* the client's identity (_resolve_client_identity)
HandoffReply(w) ==
    /\ pc[w] = "handoff_reply"
    /\ msgs' = Append(msgs, NewMessage(loc[w].conv, "assistant", "outbound", loc[w].resp, loc[w].ev))
    /\ lastResp' = [lastResp EXCEPT ![loc[w].phone] = loc[w].resp]
    /\ LET u == loc[w].snap.user
           client == IF u \in 1..Len(users) THEN users[u].phone ELSE loc[w].phone
           notice == Outbound(loc[w].phone, loc[w].resp, None)
       IN  sent' = IF loc[w].adv.id # None
                   THEN sent \o <<notice, Outbound(loc[w].adv.phone, "advisor_notice", client)>>
                   ELSE Append(sent, notice)
    /\ Finish(w, "done")
    /\ UNCHANGED <<users, convs, flowVars, count>>

\* lines 143-154: the awaited AIProvider.generate_response returns a text
AiCall(w) ==
    /\ pc[w] = "ai_call"
    /\ loc' = [loc EXCEPT ![w].resp = "ai_reply"]
    /\ Goto(w, "persist_reply")
    /\ UNCHANGED <<storeVars, sent, lastResp, flowVars, count>>

\* a router that answers with a canned text when the provider raises
AiFailMasked(w) ==
    /\ pc[w] = "ai_call"
    /\ msgs' = Append(msgs, NewMessage(loc[w].conv, "assistant", "outbound", "ai_reply", loc[w].ev))
    /\ sent' = Append(sent, Outbound(loc[w].phone, "ai_reply", None))
    /\ Finish(w, "done")
    /\ UNCHANGED <<users, convs, lastResp, flowVars, count>>

\* line 154: the awaited call raises, and the exception leaves route_message
AiFail(w) ==
    /\ pc[w] = "ai_call"
    /\ Finish(w, "failed")
    /\ UNCHANGED <<storeVars, sent, lastResp, flowVars, count>>

\* a router that stores the reply but never dispatches it
PersistReplyUnsent(w) ==
    /\ pc[w] = "persist_reply"
    /\ msgs' = Append(msgs, NewMessage(loc[w].conv, "assistant", "outbound", loc[w].resp, loc[w].ev))
    /\ lastResp' = [lastResp EXCEPT ![loc[w].phone] = loc[w].resp]
    /\ Finish(w, "done")
    /\ UNCHANGED <<users, convs, sent, flowVars, count>>

\* lines 158-167: the reply is persisted as an assistant message, dispatched to the
\* user and recorded as the user's last response
PersistReply(w) ==
    /\ pc[w] = "persist_reply"
    /\ msgs' = Append(msgs, NewMessage(loc[w].conv, "assistant", "outbound", loc[w].resp, loc[w].ev))
    /\ sent' = Append(sent, Outbound(loc[w].phone, loc[w].resp, None))
    /\ lastResp' = [lastResp EXCEPT ![loc[w].phone] = loc[w].resp]
    /\ Finish(w, "done")
    /\ UNCHANGED <<users, convs, flowVars, count>>

\* ---------------------------------------------- MessageRouter, advisor path
TxtClose(ph) == "/cerrar " \o ph
TxtChat == "ok"

\* sender phone and text of the advisor events; withIds: the payload may carry
\* business_id and user_id
AdvisorEvents ==
    { [sender |-> "ap1", text |-> TxtClose("p1"), withIds |-> FALSE],
      [sender |-> "ap1", text |-> TxtClose("p2"), withIds |-> FALSE],
      [sender |-> "ap1", text |-> TxtChat, withIds |-> TRUE],
      [sender |-> "ap0", text |-> TxtClose("p1"), withIds |-> TRUE],
      [sender |-> "p1", text |-> TxtChat, withIds |-> FALSE] }

\* _parse_close_command: the stripped text is split at its first white space;
\* "/cerrar <phone>" in any case gives the phone, anything else None
ParseCloseCommand(text) ==
    LET t == Strip(text)
        sp == {i \in 1..Len(t) : Char(t, i) \in WhiteSpace}
    IN  IF sp = {} THEN None
        ELSE IF Lower(SubSeq(t, 1, Min(sp) - 1)) # "/cerrar" THEN None
        ELSE Strip(SubSeq(t, Min(sp) + 1, Len(t)))

\* line 178: _parse_close_command on the texts of the advisor events
CloseTarget == [t \in {e.text : e \in AdvisorEvents} |-> ParseCloseCommand(t)]

\* _get_active_advisor_by_phone
GetActiveAdvisorByPhone(ph) ==
    LET S == {a \in Advisors : a.phone = ph /\ a.is_active}
    IN  IF S = {} THEN NoAdvisor
        ELSE CHOOSE a \in S : \A x \in S : a.created_at <= x.created_at

\* the row with the latest started_at among ids (ORDER BY started_at DESC LIMIT 1)
Latest(ids) == CHOOSE i \in ids : \A j \in ids : convs[i].started_at >= convs[j].started_at
\* the row with the earliest started_at among ids (ORDER BY started_at ASC LIMIT 1)
Earliest(ids) == CHOOSE i \in ids : \A j \in ids : convs[i].started_at <= convs[j].started_at

\* _get_active_human_conversation_for_advisor_client: the matching rows
HumanConvsForAdvisorClient(advisor, client) ==
    {i \in 1..Len(convs) :
        /\ convs[i].business = advisor.business
        /\ convs[i].status = "active"
        /\ convs[i].control_mode = "human"
        /\ convs[i].assigned_advisor_id = advisor.id
        /\ users[convs[i].user].phone = client}

\* _get_active_conversation_for_client_phone: the matching rows
ActiveConvsForClientPhone(b, client) ==
    {i \in 1..Len(convs) :
        /\ convs[i].business = b
        /\ convs[i].status = "active"
        /\ users[convs[i].user].phone = client}

\* _resolve_active_conversation lines 270-281: active rows of the sender phone
ActiveConvsForPhone(ph) ==
    {i \in 1..Len(convs) : convs[i].status = "active" /\ users[convs[i].user].phone = ph}

\* _resolve_active_conversation: with business_id and user_id in the payload the
\* conversation is got or created (lines 259-268), else it is the latest active
\* conversation of the sender phone (lines 270-286); l is the handler's frame
ResolveActiveConversation(w, l, retLabel, missLabel) ==
    IF l.user # 0
    THEN /\ loc' = [loc EXCEPT ![w] = [l EXCEPT !.ret = retLabel]]
         /\ Goto(w, "conv_read")
    ELSE LET found == ActiveConvsForPhone(l.phone)
         IN  IF found # {}
             THEN /\ loc' = [loc EXCEPT ![w] = [l EXCEPT !.conv = Latest(found),
                                                         !.snap = convs[Latest(found)]]]
                  /\ Goto(w, retLabel)
             ELSE IF missLabel = "rejected"
                  THEN Finish(w, "rejected")
                  ELSE /\ loc' = [loc EXCEPT ![w] = l]
                       /\ Goto(w, missLabel)

\* lines 180-183, 199-204: the advisor and the conversation to close are looked up
AdvCloseLookup(w, l) ==
    LET advisor == GetActiveAdvisorByPhone(l.phone)
    IN  IF advisor.id = None
        THEN ResolveActiveConversation(w, l, "adv_nf_persist", "adv_nf_send")
        ELSE LET found == HumanConvsForAdvisorClient(advisor, l.target)
             IN  IF found # {}
                 THEN /\ loc' = [loc EXCEPT ![w] = [l EXCEPT !.conv = Latest(found),
                                                             !.snap = convs[Latest(found)],
                                                             !.adv = advisor]]
                      /\ Goto(w, "adv_close_persist")
                 ELSE /\ loc' = [loc EXCEPT ![w] = [l EXCEPT !.adv = advisor]]
                      /\ Goto(w, "adv_fallback_lookup")

\* route_message for an advisor sender: text, payload and close command are
\* extracted (lines 50-59, 176-178); a close command looks up advisor and
\* conversation, any other message resolves its conversation (line 244)
BeginAdvisor(w) ==
    /\ MayBegin(w)
    /\ count.advisor < MaxAdvisorEvents
    /\ \E e \in AdvisorEvents :
        \E ids \in {0} \cup (IF e.withIds THEN 1..Len(users) ELSE {}) :
            LET target == CloseTarget[e.text]
                l == [NoLoc EXCEPT !.ev = NextEv, !.phone = e.sender,
                                   !.text = e.text, !.target = target, !.user = ids,
                                   !.business = IF ids = 0 THEN None ELSE users[ids].business]
            IN  IF target # None
                THEN AdvCloseLookup(w, l)
                ELSE ResolveActiveConversation(w, l, "adv_chat_persist", "rejected")
    /\ count' = [count EXCEPT !.advisor = @ + 1]
    /\ UNCHANGED <<storeVars, sent, lastResp, flowVars>>

\* lines 205-209: _get_active_conversation_for_client_phone
AdvFallbackLookup(w) ==
    /\ pc[w] = "adv_fallback_lookup"
    /\ LET found == ActiveConvsForClientPhone(loc[w].adv.business, loc[w].target)
       IN  IF found # {}
           THEN /\ loc' = [loc EXCEPT ![w].conv = Latest(found), ![w].snap = convs[Latest(found)]]
                /\ Goto(w, "adv_nf_persist")
           ELSE /\ Goto(w, "adv_nf_send")
                /\ UNCHANGED loc
    /\ UNCHANGED <<storeVars, sent, lastResp, flowVars, count>>

\* lines 184-197, 210-223: the command is persisted against the fallback
\* conversation and the "no conversation found" reply is sent
AdvNotFoundPersist(w) ==
    /\ pc[w] = "adv_nf_persist"
    /\ msgs' = Append(msgs, NewMessage(loc[w].conv, "advisor", "inbound", loc[w].text, loc[w].ev))
    /\ sent' = Append(sent, Outbound(loc[w].phone, "not_found", None))
    /\ Finish(w, "done")
    /\ UNCHANGED <<users, convs, lastResp, flowVars, count>>

\* lines 193-197, 219-223: the "no conversation found" reply with nothing persisted
AdvNotFoundSend(w) ==
    /\ pc[w] = "adv_nf_send"
    /\ sent' = Append(sent, Outbound(loc[w].phone, "not_found", None))
    /\ Finish(w, "done")
    /\ UNCHANGED <<storeVars, lastResp, flowVars, count>>

\* lines 225-232: the close command is persisted against the conversation
AdvClosePersist(w) ==
    /\ pc[w] = "adv_close_persist"
    /\ msgs' = Append(msgs, NewMessage(loc[w].conv, "advisor", "inbound", loc[w].text, loc[w].ev))
    /\ Goto(w, "adv_close_commit")
    /\ UNCHANGED <<users, convs, sent, lastResp, flowVars, loc, count>>

\* lines 233-234: what the close command assigns on the loaded conversation
RouterCloseAssign(snap) == [snap EXCEPT !.status = "closed"]

\* lines 233-242: the conversation is closed and committed, the advisor told so
AdvCloseCommit(w) ==
    /\ pc[w] = "adv_close_commit"
    /\ convs' = [convs EXCEPT ![loc[w].conv] =
                    Flush(@, loc[w].snap, RouterCloseAssign(loc[w].snap))]
    /\ sent' = Append(sent, Outbound(loc[w].phone, "closed_ok", None))
    /\ Finish(w, "closed")
    /\ UNCHANGED <<users, msgs, lastResp, flowVars, count>>

\* lines 245-252: the advisor message is persisted
AdvChatPersist(w) ==
    /\ pc[w] = "adv_chat_persist"
    /\ msgs' = Append(msgs, NewMessage(loc[w].conv, "advisor", "inbound", loc[w].text, loc[w].ev))
    /\ Finish(w, "done")
    /\ UNCHANGED <<users, convs, sent, lastResp, flowVars, count>>

\* ------------------------------------------------------------ specification
Init ==
    /\ users = <<>>
    /\ convs = <<>>
    /\ msgs = <<>>
    /\ sent = <<>>
    /\ lastResp = [ph \in Phones |-> None]
    /\ flowState = [ph \in Phones |-> None]
    /\ requestIds = [ph \in Phones |-> 0]
    /\ requests = <<>>
    /\ pc = [w \in Workers |-> "idle"]
    /\ loc = [w \in Workers |-> NoLoc]
    /\ count = [user |-> 0, advisor |-> 0, hs |-> 0]

Next ==
    \E w \in Workers :
        \/ RejectEvent(w)
        \/ BeginUser(w) \/ UserInsert(w) \/ UserReread(w)
        \/ ConvRead(w) \/ ConvInsert(w) \/ ConvReread(w) \/ PersistInbound(w)
        \/ Handoff(w) \/ HandoffReply(w)
        \/ AiCall(w) \/ AiFail(w) \/ PersistReply(w)
        \/ BeginAdvisor(w) \/ AdvFallbackLookup(w)
        \/ AdvNotFoundPersist(w) \/ AdvNotFoundSend(w) \/ AdvClosePersist(w)
        \/ AdvCloseCommit(w) \/ AdvChatPersist(w)

Spec == Init /\ [][Next]_vars


\* ------------------------------------------------------- HumanSupportService
\* the agents table (agents are configured outside the routing core)
Agents == {[id |-> "ag0", business |-> "b1", email |-> "e0", is_active |-> FALSE, created_at |-> 0],
           [id |-> "ag1", business |-> "b1", email |-> "e1", is_active |-> TRUE, created_at |-> 1],
           [id |-> "ag2", business |-> "b1", email |-> "e2", is_active |-> TRUE, created_at |-> 2],
           [id |-> "ag3", business |-> "b2", email |-> None, is_active |-> TRUE, created_at |-> 3]}
NoAgent == [id |-> None, business |-> None, email |-> None, is_active |-> FALSE, created_at |-> 0]

\* the users whose conversations reach the service
HsUsers == <<[business |-> "b1", external_id |-> "p1", phone |-> "p1"],
             [business |-> "b1", external_id |-> "p2", phone |-> "p2"],
             [business |-> "b1", external_id |-> "p3", phone |-> "p3"],
             [business |-> "b2", external_id |-> "p1", phone |-> "p1"],
             [business |-> "b3", external_id |-> "p1", phone |-> "p1"]>>

HsCloseTexts == {"/cerrar", " /CERRAR "}
HsChatText == "buenas tardes"
\* the close command in the form that names the client
HsCloseWithPhone == TxtClose("p1")
HsTexts == HsCloseTexts \cup {HsChatText, HsCloseWithPhone}
AgentEvents == {[phone |-> ph, text |-> t] : ph \in {"e0", "e1", "e2"}, t \in HsTexts}

\* handle_agent_message line 225: message_text.strip().lower() == "/cerrar", on
\* the texts of the agent events
HsIsClose == [t \in HsTexts |-> Lower(Strip(t)) = "/cerrar"]

\* _resolve_agent: the active agent whose email is the sender phone
ResolveAgent(ph) ==
    LET found == {a \in Agents : a.email = ph /\ a.is_active}
    IN IF found = {} THEN NoAgent ELSE CHOOSE a \in found : TRUE

\* _resolve_active_agent_for_business: the oldest active agent of the business
ResolveActiveAgentForBusiness(b) ==
    LET found == {a \in Agents : a.business = b /\ a.is_active}
    IN IF found = {} THEN NoAgent
       ELSE CHOOSE a \in found : \A o \in found : a.created_at <= o.created_at

HumanConvs(b, hstatus) ==
    {i \in 1..Len(convs) :
        /\ convs[i].business = b /\ convs[i].control_mode = "human"
        /\ convs[i].human_status = hstatus /\ convs[i].status = "active"}

\* _get_active_human_conversation (0: no row)
GetActiveHumanConversation(b) ==
    IF HumanConvs(b, "active") = {} THEN 0 ELSE Earliest(HumanConvs(b, "active"))

\* _get_active_conversation_for_agent (0: no row)
GetActiveConversationForAgent(agent) ==
    LET found == {i \in HumanConvs(agent.business, "active") :
                     convs[i].assigned_agent_id = agent.id}
    IN IF found = {} THEN 0 ELSE Earliest(found)

\* _get_next_waiting_conversation (0: no row)
GetNextWaitingConversation(b) ==
    IF HumanConvs(b, "waiting") = {} THEN 0 ELSE Earliest(HumanConvs(b, "waiting"))

\* _close_conversation
CloseConversation(c) ==
    [c EXCEPT !.control_mode = "ai", !.human_status = None, !.assigned_agent_id = None]

\* _activate_conversation
ActivateConversation(c, agentId) ==
    [c EXCEPT !.control_mode = "human", !.human_status = "active",
              !.assigned_agent_id = agentId]

UserPhone(c) == users[convs[c].user].phone

hsUnchanged == <<users, msgs, lastResp, flowVars>>

\* the caller hands request_human_support the active, AI-controlled conversation
\* it loaded for the user event
RhsBegin(w) ==
    /\ MayBegin(w)
    /\ count.hs < MaxHsEvents
    /\ \E c \in 1..Len(convs) :
        /\ convs[c].status = "active" /\ convs[c].control_mode = "ai"
        /\ loc' = [loc EXCEPT ![w] = [NoLoc EXCEPT !.ev = NextEv, !.conv = c,
                                                   !.snap = convs[c],
                                                   !.business = convs[c].business]]
    /\ Goto(w, "rhs_read")
    /\ count' = [count EXCEPT !.hs = @ + 1]
    /\ UNCHANGED <<convs, sent>> /\ UNCHANGED hsUnchanged

\* request_human_support lines 110-117: the agent and the conversation that
\* occupies them are read; the operation fails when no agent is configured
RhsRead(w) ==
    /\ pc[w] = "rhs_read"
    /\ LET agent == ResolveActiveAgentForBusiness(loc[w].business)
       IN IF agent = NoAgent
          THEN Finish(w, "no_agent_error")
          ELSE /\ loc' = [loc EXCEPT ![w].agent = agent.id,
                                     ![w].next = GetActiveHumanConversation(loc[w].business)]
               /\ Goto(w, "rhs_commit")
    /\ UNCHANGED <<convs, sent, count>> /\ UNCHANGED hsUnchanged

\* _send_conversation_context_to_agent lines 291-292: an agent without an
\* email cannot be sent the context, ValueError
ContextSendRaises(agent) == agent.email = None

\* request_human_support lines 119-146: assign or enqueue, commit, notify; when
\* the context cannot be sent the call raises after its commit
RhsCommit(w) ==
    /\ pc[w] = "rhs_commit"
    /\ LET c == loc[w].conv
           agent == CHOOSE a \in Agents : a.id = loc[w].agent
       IN IF loc[w].next = 0
          THEN /\ convs' = [convs EXCEPT ![c] =
                              Flush(@, loc[w].snap, ActivateConversation(loc[w].snap, agent.id))]
               /\ sent' = IF ContextSendRaises(agent)
                          THEN sent
                          ELSE sent \o <<Outbound(agent.email, "context", c),
                                         Outbound(UserPhone(c), "agent_taking", c)>>
          ELSE /\ convs' = [convs EXCEPT ![c] =
                              Flush(@, loc[w].snap,
                                    [loc[w].snap EXCEPT !.control_mode = "human",
                                                        !.human_status = "waiting",
                                                        !.assigned_agent_id = None])]
               /\ sent' = Append(sent, Outbound(UserPhone(c), "queued", c))
    /\ Finish(w, "requested")
    /\ UNCHANGED count /\ UNCHANGED hsUnchanged

\* handle_agent_message lines 219-229 and 259-282: the agent is resolved; a
\* close command looks up the agent's conversation, any other text is relayed
HamBegin(w) ==
    /\ MayBegin(w)
    /\ count.hs < MaxHsEvents
    /\ count' = [count EXCEPT !.hs = @ + 1]
    /\ \E e \in AgentEvents :
        LET agent == ResolveAgent(e.phone)
            c == GetActiveConversationForAgent(agent)
        IN IF agent = NoAgent /\ ~HsIsClose[e.text]
           THEN Finish(w, "ignored") /\ UNCHANGED sent
           ELSE IF agent = NoAgent \/ (HsIsClose[e.text] /\ c = 0)
           THEN /\ loc' = [loc EXCEPT ![w] = [NoLoc EXCEPT !.ev = NextEv, !.phone = e.phone,
                                                       !.text = e.text]]
                /\ Goto(w, "ham_not_found")
                /\ UNCHANGED sent
           ELSE IF HsIsClose[e.text]
           THEN      /\ loc' = [loc EXCEPT ![w] = [NoLoc EXCEPT !.ev = NextEv, !.conv = c,
                                                   !.snap = convs[c], !.agent = agent.id,
                                                   !.phone = e.phone,
                                                   !.business = agent.business]]
                     /\ Goto(w, "ham_close_commit")
                     /\ UNCHANGED sent
           ELSE /\ Finish(w, "relayed")
                /\ sent' = Append(sent, IF c = 0
                                        THEN Outbound(agent.email, "no_active_clients", 0)
                                        ELSE Outbound(UserPhone(c), Strip(e.text), c))
    /\ UNCHANGED convs /\ UNCHANGED hsUnchanged

\* handle_agent_message lines 220-222 and 227-229: a close command of an unknown
\* or inactive agent, or of an agent with no active conversation, is logged and
\* the handler returns
HamNotFound(w) ==
    /\ pc[w] = "ham_not_found"
    /\ Finish(w, "nothing_to_close")
    /\ UNCHANGED <<convs, sent, count>> /\ UNCHANGED hsUnchanged

\* handle_agent_message lines 231-232: the conversation is released and committed
HamCloseCommit(w) ==
    /\ pc[w] = "ham_close_commit"
    /\ convs' = [convs EXCEPT ![loc[w].conv] =
                    Flush(@, loc[w].snap, CloseConversation(loc[w].snap))]
    /\ Goto(w, "ham_promote_read")
    /\ UNCHANGED <<sent, loc, count>> /\ UNCHANGED hsUnchanged

\* handle_agent_message lines 235-239 and 252-256: the head of the waiting queue is
\* read; with nobody waiting the agent is told so. A row the session already
\* holds is returned as the session holds it.
HamPromoteRead(w) ==
    /\ pc[w] = "ham_promote_read"
    /\ LET n == GetNextWaitingConversation(loc[w].business)
           agent == CHOOSE a \in Agents : a.id = loc[w].agent
       IN IF n = 0
          THEN /\ sent' = Append(sent, Outbound(agent.email, "no_more_waiting", 0))
               /\ Finish(w, "closed")
          ELSE /\ loc' = [loc EXCEPT ![w].next = n,
                                     ![w].snap = IF n = loc[w].conv
                                                 THEN CloseConversation(loc[w].snap)
                                                 ELSE convs[n]]
               /\ Goto(w, "ham_promote_commit")
               /\ UNCHANGED sent
    /\ UNCHANGED <<convs, count>> /\ UNCHANGED hsUnchanged

\* handle_agent_message lines 240-246: the waiting conversation is given to the
\* agent, committed, and its context sent to the agent
HamPromoteCommit(w) ==
    /\ pc[w] = "ham_promote_commit"
    /\ LET n == loc[w].next
           agent == CHOOSE a \in Agents : a.id = loc[w].agent
       IN /\ convs' = [convs EXCEPT ![n] =
                          Flush(@, loc[w].snap, ActivateConversation(loc[w].snap, agent.id))]
          /\ sent' = Append(sent, Outbound(agent.email, "context", n))
    /\ Finish(w, "promoted")
    /\ UNCHANGED count /\ UNCHANGED hsUnchanged

\* the service starts on conversations the router created and still lets the AI answer
InitHS ==
    /\ users = HsUsers
    /\ convs = [i \in 1..Len(HsUsers) |-> NewConversation(HsUsers[i].business, i, i)]
    /\ msgs = <<>>
    /\ sent = <<>>
    /\ lastResp = [ph \in Phones |-> None]
    /\ flowState = [ph \in Phones |-> None]
    /\ requestIds = [ph \in Phones |-> 0]
    /\ requests = <<>>
    /\ pc = [w \in Workers |-> "idle"]
    /\ loc = [w \in Workers |-> NoLoc]
    /\ count = [user |-> 0, advisor |-> 0, hs |-> 0]

NextHS ==
    \E w \in Workers :
        \/ RhsBegin(w) \/ RhsRead(w) \/ RhsCommit(w)
        \/ HamBegin(w) \/ HamNotFound(w) \/ HamCloseCommit(w) \/ HamPromoteRead(w) \/ HamPromoteCommit(w)

SpecHS == InitHS /\ [][NextHS]_vars


\* ------------------------- HumanSupportService, its handlers one at a time
\* The handlers of the service run to their end one after another and may be
\* called for ever. Nothing of the service keeps the messages it has given to
\* the messaging provider, so here sent holds those of the handler that ran
\* last, and the events are not counted.
queueUnchanged == <<users, msgs, lastResp, flowVars, pc, loc, count>>

\* request_human_support lines 104-146 for the active, AI-controlled conversation c
RequestHumanSupport(c) ==
    /\ convs[c].status = "active" /\ convs[c].control_mode = "ai"
    /\ LET agent == ResolveActiveAgentForBusiness(convs[c].business)
       IN  IF agent = NoAgent
           THEN /\ sent' = <<>>
                /\ UNCHANGED convs
           ELSE IF GetActiveHumanConversation(convs[c].business) = 0
           THEN /\ convs' = [convs EXCEPT ![c] = ActivateConversation(@, agent.id)]
                /\ sent' = IF ContextSendRaises(agent)
                           THEN <<>>
                           ELSE <<Outbound(agent.email, "context", c),
                                  Outbound(UserPhone(c), "agent_taking", c)>>
           ELSE /\ convs' = [convs EXCEPT ![c] = [@ EXCEPT !.control_mode = "human",
                                                           !.human_status = "waiting",
                                                           !.assigned_agent_id = None]]
                /\ sent' = <<Outbound(UserPhone(c), "queued", c)>>
    /\ UNCHANGED queueUnchanged

\* handle_agent_message lines 219-256 for a close command of the agent at ph
HandleAgentClose(ph) ==
    /\ LET agent == ResolveAgent(ph)
           c == GetActiveConversationForAgent(agent)
           n == GetNextWaitingConversation(agent.business)
       IN  IF agent = NoAgent \/ c = 0
           THEN /\ sent' = <<>>
                /\ UNCHANGED convs
           ELSE IF n = 0
           THEN /\ convs' = [convs EXCEPT ![c] = CloseConversation(@)]
                /\ sent' = <<Outbound(agent.email, "no_more_waiting", 0)>>
           ELSE /\ convs' = [convs EXCEPT ![c] = CloseConversation(@),
                                          ![n] = ActivateConversation(@, agent.id)]
                /\ sent' = <<Outbound(agent.email, "context", n)>>
    /\ UNCHANGED queueUnchanged

\* handle_agent_message lines 219-222 and 259-282 for a text of the agent at ph
\* that is no close command
HandleAgentChat(ph, text) ==
    /\ ~HsIsClose[text]
    /\ LET agent == ResolveAgent(ph)
           c == GetActiveConversationForAgent(agent)
       IN  sent' = IF agent = NoAgent THEN <<>>
                   ELSE IF c = 0 THEN <<Outbound(agent.email, "no_active_clients", 0)>>
                   ELSE <<Outbound(UserPhone(c), Strip(text), c)>>
    /\ UNCHANGED convs
    /\ UNCHANGED queueUnchanged

AgentPhones == {"e0", "e1", "e2"}

NextQueue ==
    \/ \E c \in 1..Len(HsUsers) : RequestHumanSupport(c)
    \/ \E ph \in AgentPhones : HandleAgentClose(ph)
    \/ \E ph \in AgentPhones, text \in HsTexts : HandleAgentChat(ph, text)

\* fair scheduling with agents that keep closing: a close command that would
\* release a conversation is not put off for ever
SpecQueue ==
    /\ InitHS
    /\ [][NextQueue]_vars
    /\ \A ph \in AgentPhones : WF_vars(HandleAgentClose(ph) /\ convs' # convs)

\* --------------------------------------------- IntentEngine and FlowManager
\* One FlowManager with its ConversationManager and MockDataSource
\* (app/api/v1/routes/webhook.py lines 21-28) classifies and handles a
\* sequence of messages; loc["w1"] keeps the message handled last.
MaxFlowEvents == 3

TxtReservar == "Hola, quiero reservar una consulta"

\* words the generated messages are made of
FlowWords == {"hola", "Buenas", "tardes", "precio", "horarios", "reservar", "quiero",
              "SI", "ok", "cancelar", "no", "asesor", "gracias", "holanda", "cupos,",
              "hay"}

FlowTexts ==
    {TxtReservar, " Quiero  RESERVAR ", "buenas tardes, un asesor"}
        \cup FlowWords
        \cup {a \o " " \o b : a, b \in FlowWords}

\* IntentEngine.detect_intent lines 197-201: the scores of a message
Scores(message) ==
    [i \in Intents |-> CountMatches(NormalizeText(message), IntentKeywords[i])]

\* the scores and the detected intent of the messages, computed once
FlowScores == [t \in FlowTexts |-> Scores(t)]
FlowIntentOf == [t \in FlowTexts |-> detect_intent(t)]

\* intents FlowManager.handle may be handed: those of the engine, fallback, and
\* a label the engine never produces
HandledIntents == Intents \cup {"fallback", "smalltalk"}

flowUnchanged == <<users, convs, msgs, sent, lastResp, pc>>

\* a message is classified by the IntentEngine and handled by the FlowManager
FlowRoute(u, t) ==
    /\ count.user < MaxFlowEvents
    /\ FlowManagerHandle(FlowIntentOf[t], u)
    /\ loc' = [loc EXCEPT !["w1"] =
                  [NoLoc EXCEPT !.ev = NextEv, !.phone = u, !.text = t,
                                !.intent = FlowIntentOf[t],
                                !.resp = FlowResponse(FlowIntentOf[t], GetState(flowState, u))]]
    /\ count' = [count EXCEPT !.user = @ + 1]
    /\ UNCHANGED flowUnchanged

\* FlowManager.handle called with an intent label
FlowHandle(u, intent) ==
    /\ count.user < MaxFlowEvents
    /\ FlowManagerHandle(intent, u)
    /\ loc' = [loc EXCEPT !["w1"] =
                  [NoLoc EXCEPT !.ev = NextEv, !.phone = u, !.intent = intent,
                                !.resp = FlowResponse(intent, GetState(flowState, u))]]
    /\ count' = [count EXCEPT !.user = @ + 1]
    /\ UNCHANGED flowUnchanged

NextFlow ==
    \E u \in Phones :
        \/ \E t \in FlowTexts : FlowRoute(u, t)
        \/ \E i \in HandledIntents : FlowHandle(u, i)

SpecFlow == Init /\ [][NextFlow]_vars


\* ------------------------------------------- one process, one event loop
\* bot_service and the router are module-level objects of one FastAPI process
\* (webhook.py lines 30-44): its handlers are coroutines of a single event loop,
\* and a coroutine keeps the loop until it really suspends. No await of
\* route_message suspends: the store calls are synchronous, FlowManager.handle
\* and MockMessagingProvider.send_message return without waiting, and
\* AzureAIProvider.generate_response (azure_ai.py lines 18-36) calls the blocking
\* client.chat.completions.create without await. So the loop takes an event
\* only when no handler of the process is running.
LoopFree == \A w \in Workers : pc[w] = "idle"

\* user events of the process
MaxLoopEvents == 3

\* the event loop starts the handler of one more inbound event
LoopBegin(w) ==
    /\ LoopFree
    /\ (RejectEvent(w) \/ BeginUserFrom(w, MaxLoopEvents, LoopTexts) \/ BeginAdvisor(w))

\* one step of the process: a new event is taken, or the running handler goes on.
\* A handler that ran alone never finds its INSERT rejected, so the re-reads
\* after a rejected INSERT are no steps of this process.
NextLoop ==
    \E w \in Workers :
        \/ LoopFree /\ RejectEvent(w)
        \/ LoopFree /\ BeginUserFrom(w, MaxLoopEvents, LoopTexts)
        \/ LoopFree /\ BeginAdvisor(w)
        \/ UserInsert(w) \/ ConvRead(w) \/ ConvInsert(w) \/ PersistInbound(w)
        \/ Handoff(w) \/ HandoffReply(w)
        \/ AiCall(w) \/ AiFail(w) \/ PersistReply(w)
        \/ AdvFallbackLookup(w)
        \/ AdvNotFoundPersist(w) \/ AdvNotFoundSend(w) \/ AdvClosePersist(w)
        \/ AdvCloseCommit(w) \/ AdvChatPersist(w)

SpecLoop == Init /\ [][NextLoop]_vars

\* ------------------------------------------------------------------ claims
IsUserEvent(w) == loc[w].ret = "persist_inbound"

FlowOrAiReplies == {"welcome", "catalog", "availability", "collect_prompt",
                    "advisor_will_validate", "nothing_pending", "cancelled_msg", "ai_reply"}

\* C1: no FlowManager- or AI-generated assistant reply is persisted or dispatched
\* for a conversation at a moment when its stored control_mode is human
C1_NoBotReplyWhileHuman ==
    [][\A w \in Workers :
          (pc[w] = "persist_reply" /\ Len(msgs') = Len(msgs) + 1
             /\ msgs'[Len(msgs')].content \in FlowOrAiReplies)
          => convs[msgs'[Len(msgs')].conv].control_mode # "human"]_vars

\* C2: at most one conversation with status active per (business_id, user_id)
C2_OneActiveConversation ==
    \A i, j \in 1..Len(convs) :
        (/\ convs[i].status = "active" /\ convs[j].status = "active"
         /\ convs[i].business = convs[j].business /\ convs[i].user = convs[j].user)
        => i = j

\* two creators raced: one INSERT was rejected and the handler is about to re-read
C2_Witness ==
    \E w \in Workers :
        pc[w] = "conv_reread" /\ ActiveConvIds(loc[w].business, loc[w].user) # {}

ConvRowsOf(b, u) == {i \in 1..Len(convs) : convs[i].business = b /\ convs[i].user = u}

\* C3: of two concurrent first-contact user events of one (business_id, phone), the
\* one whose INSERT hits the uniqueness conflict (the only Conversation row of the
\* user is the one the other event created) re-reads that row and goes on to
\* persist its inbound message against it; it never fails because of the conflict
C3_ConflictNeverFails ==
    [][\A w \in Workers :
          (/\ pc[w] = "conv_reread" /\ IsUserEvent(w)
           /\ Cardinality(ConvRowsOf(loc[w].business, loc[w].user)) = 1)
          => \/ pc'[w] = "conv_reread"
             \/ /\ pc'[w] = "persist_inbound"
                /\ loc'[w].conv \in ConvRowsOf(loc[w].business, loc[w].user)]_vars

\* C4: one users row per (business_id, phone); every user event resolves to it; a
\* re-read after a creation conflict always finds the row
C4_UserIdempotent ==
    /\ \A k \in UserKeys : Cardinality(UserIds(k[1], k[2])) <= 1
    /\ \A w \in Workers :
        /\ (IsUserEvent(w) /\ loc[w].user # 0)
              => UserIds(loc[w].business, loc[w].phone) = {loc[w].user}
        /\ pc[w] = "user_reread" => UserIds(loc[w].business, loc[w].phone) # {}
        /\ (IsUserEvent(w) /\ pc[w] \notin {"user_insert", "user_reread"}) => loc[w].user # 0

\* a creation conflict happened: a user INSERT was rejected while the other
\* event of the same (business_id, phone) is still being handled
C4_Witness ==
    \E v, w \in Workers :
        /\ pc[w] = "user_reread" /\ v # w /\ IsUserEvent(v)
        /\ loc[v].business = loc[w].business /\ loc[v].phone = loc[w].phone

\* C9: a conversation closed by an agent close command has status closed,
\* control_mode ai and no assigned advisor
C9_ClosedIsReleased ==
    \A i \in 1..Len(convs) :
        convs[i].status = "closed"
        => convs[i].control_mode = "ai" /\ convs[i].assigned_advisor_id = None

\* the human conversations an agent is serving
ServedBy(agentId) ==
    {i \in 1..Len(convs) :
        /\ convs[i].status = "active" /\ convs[i].control_mode = "human"
        /\ convs[i].human_status = "active" /\ convs[i].assigned_agent_id = agentId}

\* C5: each agent is assigned to at most one conversation that is status active,
\* control_mode human and human_status active
C5_OneConversationPerAgent ==
    \A a \in Agents : Cardinality(ServedBy(a.id)) <= 1

\* C6: a close command that released the agent's conversation while conversations
\* wait selects exactly the waiting conversation with the earliest start time;
\* its promotion leaves that conversation human_status active and assigned to the
\* closing agent, and leaves every other conversation as it was
C6_FifoPromotion ==
    [][\A w \in Workers :
          LET waiting == HumanConvs(loc[w].business, "waiting")
              n == loc[w].next
          IN /\ (pc[w] = "ham_promote_read" /\ pc'[w] # "ham_promote_read" /\ waiting # {})
                => /\ pc'[w] = "ham_promote_commit"
                   /\ loc'[w].next \in waiting
                   /\ \A j \in waiting : convs[loc'[w].next].started_at <= convs[j].started_at
                   /\ convs' = convs
             /\ (pc[w] = "ham_promote_commit" /\ pc'[w] # "ham_promote_commit")
                => /\ convs'[n].human_status = "active"
                   /\ convs'[n].assigned_agent_id = loc[w].agent
                   /\ \A i \in 1..Len(convs) : i # n => convs'[i] = convs[i]]_vars

\* C7: close and promotion are one atomic step: while a close command has
\* released its conversation and not yet promoted the waiting one, no other
\* event in progress reads or writes the conversations
C7_ClosePromoteAtomic ==
    [][\A w \in Workers :
          (/\ pc[w] \in {"ham_promote_read", "ham_promote_commit"}
           /\ HumanConvs(loc[w].business, "waiting") # {})
          => \A v \in Workers \ {w} : pc[v] # "idle" => pc'[v] = pc[v]]_vars

\* C8: a close command that releases the agent's conversation while nobody waits
\* leaves no conversation assigned to that agent, and the agent is sent exactly
\* one notice that no one is waiting
C8_CloseWithEmptyQueue ==
    [][\A w \in Workers :
          /\ (/\ pc[w] = "ham_close_commit" /\ pc'[w] # "ham_close_commit"
              /\ HumanConvs(loc[w].business, "waiting") = {})
             => \A i \in 1..Len(convs) : convs'[i].assigned_agent_id # loc[w].agent
          /\ (/\ pc[w] = "ham_promote_read" /\ pc'[w] # "ham_promote_read"
              /\ HumanConvs(loc[w].business, "waiting") = {})
             => /\ pc'[w] = "idle"
                /\ sent' = Append(sent, Outbound(loc[w].phone, "no_more_waiting", 0))
                /\ convs' = convs]_vars

\* C10: a conversation with human_status active has an assigned agent and that
\* agent is active; a conversation with human_status waiting has none
C10_HumanStatusAgent ==
    \A i \in 1..Len(convs) :
        /\ convs[i].human_status = "active"
           => \E a \in Agents : a.id = convs[i].assigned_agent_id /\ a.is_active
        /\ convs[i].human_status = "waiting" => convs[i].assigned_agent_id = None

\* C11: request_human_support decides on what it reads: with no human-active
\* conversation in the business the conversation becomes human / active / assigned
\* to the earliest-created active agent, otherwise human / waiting / unassigned
\* and the user is told they are queued
C11_RequestOutcome ==
    [][\A w \in Workers :
          LET c == loc[w].conv
              b == loc[w].business
              active == {a \in Agents : a.business = b /\ a.is_active}
          IN /\ (pc[w] = "rhs_read" /\ pc'[w] = "rhs_commit")
                => (loc'[w].next = 0 <=> HumanConvs(b, "active") = {})
             /\ (pc[w] = "rhs_commit" /\ pc'[w] = "idle" /\ sent' # sent)
                => /\ convs'[c].control_mode = "human"
                   /\ loc[w].next = 0
                      => /\ convs'[c].human_status = "active"
                         /\ \E a \in active :
                              /\ convs'[c].assigned_agent_id = a.id
                              /\ \A o \in active : a.created_at <= o.created_at
                   /\ loc[w].next # 0
                      => /\ convs'[c].human_status = "waiting"
                         /\ convs'[c].assigned_agent_id = None
                         /\ sent' = Append(sent, Outbound(UserPhone(c), "queued", c))]_vars

\* C12: a user message asking for an advisor (classified human_handoff) on a
\* conversation loaded as AI-controlled switches the conversation to human
\* control; FlowManager.handle and the AI provider are not called for the event,
\* whose only reply is the hand-off notice
C12_HandoffSkipsFlowAndAi ==
    [][\A w \in Workers :
          /\ (/\ pc[w] = "persist_inbound" /\ pc'[w] # "persist_inbound"
              /\ loc[w].text = TxtAsesor /\ ~HumanOwned(loc[w].snap))
             => /\ pc'[w] = "handoff"
                /\ loc'[w].intent = "human_handoff"
                /\ <<flowState, requestIds, requests>>' = <<flowState, requestIds, requests>>
          /\ (pc[w] = "handoff" /\ pc'[w] # "handoff")
             => /\ pc'[w] = "handoff_reply"
                /\ convs'[loc[w].conv].control_mode = "human"
          /\ (pc[w] = "handoff_reply" /\ pc'[w] # "handoff_reply")
             => /\ pc'[w] = "idle"
                /\ msgs' = Append(msgs, NewMessage(loc[w].conv, "assistant", "outbound",
                                                   "handoff_notice", loc[w].ev))
                /\ flowState' = flowState]_vars

\* a hand-off was carried through: its notice is stored on a human-controlled conversation
C12_Witness ==
    \E i \in 1..Len(msgs) :
        /\ msgs[i].content = "handoff_notice"
        /\ convs[msgs[i].conv].control_mode = "human"

C14_FailedRequestLeavesStore ==
    [][\A w \in Workers :
          (pc[w] \in {"rhs_read", "rhs_commit"} /\ pc'[w] = "idle" /\ sent' = sent)
          => LET c == loc[w].conv
             IN /\ convs'[c].control_mode = convs[c].control_mode
                /\ convs'[c].human_status = convs[c].human_status
                /\ convs'[c].assigned_agent_id = convs[c].assigned_agent_id]_vars

\* C15: a hand-off trigger in a business without an active advisor fails: the
\* conversation is not switched to human control and the user is not told
\* that an advisor will take over
C15_NoAdvisorFails ==
    [][\A w \in Workers :
          LET active == {a \in Advisors : a.business = loc[w].business /\ a.is_active}
          IN (active = {})
             => /\ (pc[w] = "handoff" /\ pc'[w] # "handoff")
                   => /\ convs' = convs
                      /\ pc'[w] = "idle"
                /\ (pc[w] = "handoff_reply" /\ pc'[w] # "handoff_reply")
                   => sent' = sent]_vars

\* C16: an event rejected with a validation error (missing sender, missing
\* business_id, malformed business_id, missing message text) creates and
\* modifies no User, Conversation or Message row
C16_RejectedEventLeavesStore ==
    [][/\ (count'.user # count.user /\ pc' = pc) => storeVars' = storeVars
       /\ \A w \in Workers :
            (/\ IsUserEvent(w) /\ ExtractMessageText(loc[w].text) = ""
             /\ pc'[w] # pc[w])
            => storeVars' = storeVars]_vars

\* the messages stored for an event
MsgsOfEvent(ev, sender) ==
    {i \in 1..Len(msgs) : msgs[i].ev = ev /\ msgs[i].sender_type = sender}

\* C17: when the AI provider call fails the event ends there: the call is not
\* repeated, no assistant message is persisted or dispatched for the event, and
\* the inbound user message persisted before the call stays stored
C17_AiFailurePropagates ==
    [][\A w \in Workers :
          (pc[w] = "ai_call" /\ pc'[w] # "persist_reply")
          => /\ pc'[w] \in {"ai_call", "idle"}
             /\ pc'[w] = "idle"
                => /\ msgs' = msgs /\ sent' = sent /\ lastResp' = lastResp
                   /\ MsgsOfEvent(loc[w].ev, "user") # {}
                   /\ MsgsOfEvent(loc[w].ev, "assistant") = {}]_vars

\* an event that went to the AI provider has ended with its inbound message
\* stored and without any assistant message
C17_Witness ==
    \E i \in 1..Len(msgs) :
        /\ msgs[i].sender_type = "user" /\ msgs[i].content = TxtGracias
        /\ convs[msgs[i].conv].control_mode = "ai"
        /\ MsgsOfEvent(msgs[i].ev, "assistant") = {}
        /\ \A w \in Workers : loc[w].ev # msgs[i].ev

\* C18: a user event that completes on the flow/AI path has its inbound message
\* stored before its reply; the reply is stored as exactly one outbound assistant
\* message, and the same text is dispatched to the user's phone and recorded as
\* that user's last response
C18_ReplyPersistedThenSent ==
    [][\A w \in Workers :
          (pc[w] = "persist_reply" /\ pc'[w] # "persist_reply")
          => /\ pc'[w] = "idle"
             /\ MsgsOfEvent(loc[w].ev, "user") # {}
             /\ MsgsOfEvent(loc[w].ev, "assistant") = {}
             /\ msgs' = Append(msgs, NewMessage(loc[w].conv, "assistant", "outbound",
                                                loc[w].resp, loc[w].ev))
             /\ sent' = Append(sent, Outbound(loc[w].phone, loc[w].resp, None))
             /\ lastResp' = [lastResp EXCEPT ![loc[w].phone] = loc[w].resp]
             /\ loc[w].resp \in FlowOrAiReplies]_vars

\* an event completed on the AI path: inbound message, then the provider's
\* reply stored, dispatched and recorded
C18_Witness ==
    \E i, j \in 1..Len(msgs) :
        /\ i < j /\ msgs[i].ev = msgs[j].ev
        /\ msgs[i].sender_type = "user" /\ msgs[j].sender_type = "assistant"
        /\ msgs[j].content = "ai_reply"
        /\ \E k \in 1..Len(sent) : sent[k].text = "ai_reply"
        /\ \E ph \in Phones : lastResp[ph] = "ai_reply"

\* C19: the inbound messages of one conversation are stored in the order in
\* which the router began handling their events, also when the handlings overlap
C19_InboundInArrivalOrder ==
    \A i, j \in 1..Len(msgs) :
        (/\ i < j
         /\ msgs[i].conv = msgs[j].conv
         /\ msgs[i].sender_type = "user" /\ msgs[j].sender_type = "user")
        => msgs[i].ev < msgs[j].ev

\* C20: a user message on a human-controlled conversation is stored and leaves
\* the control state alone; when the conversation is assigned it is forwarded,
\* exactly once, to the assigned contact, otherwise nothing is sent
C20_HumanMessageForwarded ==
    [][\A w \in Workers :
          (/\ pc[w] = "persist_inbound" /\ pc'[w] # "persist_inbound"
           /\ HumanOwned(loc[w].snap)
           /\ ExtractMessageText(loc[w].text) # "")
          => /\ Len(msgs') = Len(msgs) + 1
             /\ convs' = convs
             /\ IF loc[w].snap.assigned_advisor_id = None
                THEN sent' = sent
                ELSE /\ Len(sent') = Len(sent) + 1
                     /\ \E a \in Advisors :
                           /\ a.id = loc[w].snap.assigned_advisor_id
                           /\ sent'[Len(sent')].to = a.phone]_vars

\* the active human conversations the router has assigned to an advisor
AssignedToAdvisor(advisor) ==
    {i \in 1..Len(convs) :
        /\ convs[i].status = "active" /\ convs[i].control_mode = "human"
        /\ convs[i].assigned_advisor_id = advisor.id}

\* C21: a message that is not a command, from an agent who has an active human
\* conversation, is sent to that conversation's user and to nobody else; from an
\* agent without one, nothing is sent to any user
C21_AdvisorMessageRelayed ==
    [][\A w \in Workers :
          (pc[w] = "adv_chat_persist" /\ pc'[w] # "adv_chat_persist")
          => LET advisor == GetActiveAdvisorByPhone(loc[w].phone)
                 served == IF advisor.id = None THEN {} ELSE AssignedToAdvisor(advisor)
             IN  IF served = {}
                 THEN \A k \in 1..Len(sent') : k > Len(sent) => sent'[k].to \notin Phones
                 ELSE /\ Len(sent') = Len(sent) + 1
                      /\ sent'[Len(sent')].to \in {users[convs[i].user].phone : i \in served}]_vars

\* C22: an advisor message that is not a close command is stored exactly once,
\* as an inbound message of sender type advisor that carries the event's
\* identity; it changes no flow state and dispatches nothing
C22_AdvisorMessageStoredOnce ==
    [][/\ count'.advisor > count.advisor => pc' # pc
       /\ \A w \in Workers :
            (pc[w] = "adv_chat_persist" /\ pc'[w] # "adv_chat_persist")
            => /\ MsgsOfEvent(loc[w].ev, "advisor") = {}
               /\ msgs' = Append(msgs, NewMessage(loc[w].conv, "advisor", "inbound",
                                                  loc[w].text, loc[w].ev))
               /\ sent' = sent
               /\ UNCHANGED flowVars]_vars

\* C23: a close command with no matching active human conversation (unknown or
\* inactive agent, or no conversation of that agent) changes no conversation and
\* sends its issuer exactly one "no conversation found" reply
C23_CloseNotFoundReplies ==
    [][\A w \in Workers :
          (pc[w] = "ham_not_found" /\ pc'[w] # "ham_not_found")
          => /\ convs' = convs
             /\ Len(sent') = Len(sent) + 1
             /\ sent'[Len(sent')].to = loc[w].phone]_vars

\* position of an intent in the priority order
Rank(i) == CHOOSE n \in 1..Len(PriorityOrder) : PriorityOrder[n] = i

\* C24: detect_intent agrees with the reference classifier on every message:
\* fallback when every score is 0, otherwise an intent of maximal score that
\* no intent of the same score precedes in the priority order
C24_ReferenceClassifier ==
    \A t \in {loc["w1"].text} \cap FlowTexts :
        LET sc == FlowScores[t]
            r == loc["w1"].intent
        IN  IF \A i \in Intents : sc[i] = 0
            THEN r = "fallback"
            ELSE /\ r \in Intents
                 /\ \A j \in Intents :
                       \/ sc[j] < sc[r]
                       \/ sc[j] = sc[r] /\ Rank(r) <= Rank(j)

\* a message whose greeting score beats a lower score of human_handoff, the
\* intent first in priority
C24_Witness ==
    /\ loc["w1"].text \in FlowTexts
    /\ loc["w1"].intent = "greeting"
    /\ FlowScores[loc["w1"].text]["human_handoff"] = 1
    /\ FlowScores[loc["w1"].text]["greeting"] = 2

\* C25: for "Hola, quiero reservar una consulta" greeting scores 1 and
\* booking_intent scores 2 ("reservar" and "quiero reservar" both match), every
\* other intent 0, so detect_intent returns booking_intent on its score;
\* FlowManager.handle then moves an idle user to collecting_data and returns
\* the data-collection prompt
C25_ReservarExample ==
    [][(count'.user = count.user + 1 /\ loc'["w1"].text = TxtReservar)
       => /\ FlowScores[TxtReservar] =
                [i \in Intents |-> CASE i = "greeting" -> 1
                                     [] i = "booking_intent" -> 2
                                     [] OTHER -> 0]
          /\ loc'["w1"].intent = "booking_intent"
          /\ loc'["w1"].resp = "collect_prompt"
          /\ GetState(flowState, loc'["w1"].phone) = "idle"
                => flowState'[loc'["w1"].phone] = "collecting_data"]_vars

\* the message was the first one of an idle user
C25_Witness ==
    /\ count.user = 1
    /\ loc["w1"].text = TxtReservar
    /\ loc["w1"].resp = "collect_prompt"
    /\ flowState[loc["w1"].phone] = "collecting_data"

\* C25 as stated: greeting and booking_intent both score 1 and the priority
\* order breaks the tie
C25_ReservarTie ==
    [][(count'.user = count.user + 1 /\ loc'["w1"].text = TxtReservar)
       => /\ FlowScores[TxtReservar]["greeting"] = 1
          /\ FlowScores[TxtReservar]["booking_intent"] = 1
          /\ loc'["w1"].intent = "booking_intent"
          /\ loc'["w1"].resp = "collect_prompt"
          /\ GetState(flowState, loc'["w1"].phone) = "idle"
                => flowState'[loc'["w1"].phone] = "collecting_data"]_vars

\* C26: handling booking_intent for a user, whatever the user's flow state,
\* creates exactly one new pending request, records its generated id as the
\* user's last request id, sets the user's flow state to collecting_data and
\* returns the data-collection prompt
C26_BookingCreatesRequest ==
    [][(count'.user = count.user + 1 /\ loc'["w1"].intent = "booking_intent")
       => LET u == loc'["w1"].phone
          IN  /\ requests' = Append(requests, [user |-> u, status |-> "pending"])
              /\ requestIds' = [requestIds EXCEPT ![u] = Len(requests')]
              /\ flowState'[u] = "collecting_data"
              /\ \A o \in Phones \ {u} : GetState(flowState', o) = GetState(flowState, o)
              /\ loc'["w1"].resp = "collect_prompt"]_vars

\* a second booking of one user, handled when the flow state was not idle
C26_Witness ==
    /\ loc["w1"].intent = "booking_intent"
    /\ flowState[loc["w1"].phone] = "collecting_data"
    /\ requestIds[loc["w1"].phone] = 2
    /\ requests[1].user = loc["w1"].phone
    /\ count.user = 3

\* C27: a confirmation handled while the user's flow state is collecting_data
\* or awaiting_confirmation sets the state to pending_human_validation; in any
\* other state it leaves the state as it was and answers that nothing is pending
C27_ConfirmationNeedsRequest ==
    [][(count'.user = count.user + 1 /\ loc'["w1"].intent = "confirmation")
       => LET u == loc'["w1"].phone
          IN  IF GetState(flowState, u) \in {"collecting_data", "awaiting_confirmation"}
              THEN flowState'[u] = "pending_human_validation"
              ELSE /\ flowState'[u] = GetState(flowState, u)
                   /\ loc'["w1"].resp = "nothing_pending"]_vars

\* a confirmation that found nothing to confirm, after one that did
C27_Witness ==
    /\ loc["w1"].intent = "confirmation"
    /\ loc["w1"].resp = "nothing_pending"
    /\ flowState[loc["w1"].phone] = "pending_human_validation"

\* C28: after a cancellation is handled the user's flow state is cancelled and
\* the cursor kept for the user, the stored last request id included, is cleared
C28_CancellationClearsCursor ==
    [][(count'.user = count.user + 1 /\ loc'["w1"].intent = "cancellation")
       => /\ flowState'[loc'["w1"].phone] = "cancelled"
          /\ requestIds'[loc'["w1"].phone] = 0]_vars

\* C29: whatever intents the FlowManager handles, it confirms nothing: every
\* request created through the flow stays pending, and no user's flow is ever
\* marked completed
C29_NeverAutoConfirms ==
    /\ \A i \in 1..Len(requests) : requests[i].status = "pending"
    /\ \A u \in Phones : flowState[u] # "completed"

\* a user confirmed a booking: the request is still pending and the flow waits
\* for human validation
C29_Witness ==
    /\ loc["w1"].intent = "confirmation"
    /\ flowState[loc["w1"].phone] = "pending_human_validation"
    /\ requestIds[loc["w1"].phone] # 0
    /\ requests[requestIds[loc["w1"].phone]].status = "pending"

\* C30: while the handler of one event waits in the AI provider call and no
\* other handler runs, the process can still take a further inbound event (as
\* long as the bound leaves one): the waiting call holds up only its own event
C30_StuckAiCallBlocksOnlyItsEvent ==
    \A w \in Workers :
        (/\ pc[w] = "ai_call"
         /\ \A v \in Workers \ {w} : pc[v] = "idle"
         /\ count.user < MaxUserEvents)
            => ENABLED (\E v \in Workers \ {w} : LoopBegin(v))

\* C31: a user message on an AI-controlled conversation whose intent is not
\* human_handoff reaches the AI provider exactly when FlowManager.handle gives no
\* response, with a context bag holding the conversation id, the business id, the
\* control mode, the stored context and the detected intent; the call is entered
\* from that one place only and is left without being repeated
C31_AiCalledOnlyWithoutFlowResponse ==
    [][\A w \in Workers :
        LET l == loc[w]
            text == ExtractMessageText(l.text)
        IN  /\ (/\ pc[w] = "persist_inbound" /\ pc'[w] # "persist_inbound"
                /\ text # "" /\ ~HumanOwned(l.snap)
                /\ IntentOf[text] # "human_handoff")
               => LET resp == FlowResponse(IntentOf[text], GetState(flowState, l.phone))
                  IN  IF resp = None
                      THEN /\ pc'[w] = "ai_call"
                           /\ loc'[w].ctx.conversation_id = l.conv
                           /\ loc'[w].ctx.business_id = l.business
                           /\ loc'[w].ctx.control_mode = "ai"
                           /\ loc'[w].ctx.context = StoredContext(l.snap)
                           /\ loc'[w].ctx.intent = IntentOf[text]
                      ELSE /\ pc'[w] = "persist_reply"
                           /\ loc'[w].resp = resp
                           /\ loc'[w].ctx = None
            /\ (pc'[w] = "ai_call" /\ pc[w] # "ai_call") => pc[w] = "persist_inbound"
            /\ (pc[w] = "ai_call" /\ pc'[w] # "ai_call")
               => pc'[w] \in {"persist_reply", "idle"}]_vars

\* one handler is inside the AI provider call with its context bag while another
\* is about to send the response FlowManager gave, with no AI call made
C31_Witness ==
    /\ pc["w1"] = "ai_call"
    /\ loc["w1"].ctx.intent = loc["w1"].intent
    /\ loc["w1"].ctx.conversation_id = loc["w1"].conv
    /\ pc["w2"] = "persist_reply"
    /\ loc["w2"].resp = "welcome"

FlowChangingIntents == {"booking_intent", "confirmation", "cancellation"}

\* C32: handling greeting, info_request, availability_request, fallback,
\* human_handoff or an unrecognized intent leaves every user's flow state (as
\* get_state reports it) and stored request id unchanged and creates no request;
\* for fallback, human_handoff and unrecognized intents handle returns no response
C32_OtherIntentsLeaveFlowAlone ==
    [][(count'.user = count.user + 1 /\ loc'["w1"].intent \notin FlowChangingIntents)
       => /\ \A u \in Phones : GetState(flowState', u) = GetState(flowState, u)
          /\ requestIds' = requestIds
          /\ requests' = requests
          /\ (loc'["w1"].intent \notin {"greeting", "info_request", "availability_request"}
              => loc'["w1"].resp = None)]_vars

\* the second message of a user with a booking under way had an intent outside
\* the flow: state and request id are still those of the booking
C32_Witness ==
    /\ loc["w1"].intent \in {"greeting", "smalltalk", "human_handoff"}
    /\ flowState[loc["w1"].phone] = "collecting_data"
    /\ requestIds[loc["w1"].phone] = 1
    /\ Len(requests) = 1
    /\ count.user = 2

\* C33: every change of a user's flow state made by FlowManager.handle follows an
\* edge of idle -> collecting_data -> (awaiting_confirmation |
\* pending_human_validation) -> {completed, cancelled}
C33_FlowFollowsDeclaredMachine ==
    [][LET DeclaredEdges ==
               {<<"idle", "collecting_data">>,
                <<"collecting_data", "awaiting_confirmation">>,
                <<"collecting_data", "pending_human_validation">>,
                <<"awaiting_confirmation", "completed">>,
                <<"awaiting_confirmation", "cancelled">>,
                <<"pending_human_validation", "completed">>,
                <<"pending_human_validation", "cancelled">>}
       IN  \A u \in Phones :
               GetState(flowState', u) # GetState(flowState, u)
                   => <<GetState(flowState, u), GetState(flowState', u)>> \in DeclaredEdges]_vars

\* the close command in both forms, as the messaging provider would carry it
CloseCommandTexts == {Strip(t) : t \in HsCloseTexts \cup {HsCloseWithPhone}}

\* C34: the text of an agent's close command, in the form "/cerrar <client_phone>"
\* or as a bare "/cerrar", is never sent to anybody as a chat message
C34_CloseCommandNeverForwarded ==
    \A i \in 1..Len(sent) : sent[i].text \notin CloseCommandTexts

\* C35: with agents that keep closing their active conversation, every
\* conversation that waits for an agent is eventually given to one
C35_WaitingEventuallyPromoted ==
    \A c \in 1..Len(HsUsers) :
        (convs[c].human_status = "waiting") ~> (convs[c].human_status = "active")

\* C36: every active conversation under human control is matched by the close
\* command of some active advisor, so that it can be closed
C36_HumanConversationClosable ==
    \A i \in 1..Len(convs) :
        (convs[i].status = "active" /\ convs[i].control_mode = "human")
            => \E a \in Advisors :
                /\ a.is_active
                /\ GetActiveAdvisorByPhone(a.phone) = a
                /\ i \in HumanConvsForAdvisorClient(a, users[convs[i].user].phone)

\* what the flow reports for the user k = <<business, phone>>:
\* ConversationManager.get_state(user), FlowManager.get_last_request_id(user) and
\* MessageRouter.get_last_response(user) take the phone and no business
ObservedFlow(k) == <<GetState(flowState, k[2]), requestIds[k[2]], lastResp[k[2]]>>

\* C37: a step of the handler of a user message of one business changes nothing
\* of the flow state, stored request id and last response observed for the same
\* phone number in another business
C37_FlowIsolatedPerBusiness ==
    [][\A w \in Workers :
        (IsUserEvent(w) /\ pc'[w] # pc[w])
            => \A k \in UserKeys :
                (k[1] # loc[w].business /\ k[2] = loc[w].phone)
                    => ObservedFlow(k)' = ObservedFlow(k)]_vars

\* C38: the first message of a newly created conversation is answered by
\* FlowManager as from flow state idle, whatever happened in earlier conversations
\* of the user (the phone belonging to this one user only)
C38_NewConversationStartsIdle ==
    [][\A w \in Workers :
        LET l == loc[w]
            text == ExtractMessageText(l.text)
        IN  (/\ pc[w] = "persist_inbound" /\ pc'[w] # "persist_inbound"
             /\ text # "" /\ ~HumanOwned(l.snap)
             /\ IntentOf[text] # "human_handoff"
             /\ \A i \in 1..Len(msgs) : msgs[i].conv # l.conv
             /\ \A i \in 1..Len(users) : users[i].phone = l.phone => i = l.user)
            => loc'[w].resp = FlowResponse(IntentOf[text], "idle")]_vars

\* BotService.handle_message lines 62-64, once route_message has returned: the
\* response it returns for the user (a user field that is the bare phone), last
\* being the router's _last_response_by_user
HandleMessageResponse(last, user) ==
    IF user \in DOMAIN last /\ last[user] # None THEN last[user] ELSE ""

\* C39: when the handler of a user message returns, handle_message answers with
\* the reply generated for that message, and with an empty response when none
\* was generated for it (the conversation being under human control)
C39_ResponseIsOfThisMessage ==
    [][\A w \in Workers :
        (IsUserEvent(w) /\ pc'[w] = "idle")
            => /\ (pc[w] = "persist_inbound" /\ ExtractMessageText(loc[w].text) # "")
                  => HandleMessageResponse(lastResp', loc[w].phone) = ""
               /\ (pc[w] \in {"persist_reply", "handoff_reply"})
                  => HandleMessageResponse(lastResp', loc[w].phone) = loc[w].resp]_vars

\* C40: a conversation row is created only by the handler of a user message, for
\* a (business, user) pair that has no active conversation; the handler of an
\* advisor message creates none
C40_OnlyUserMessagesCreateConversations ==
    [][Len(convs') > Len(convs)
       => \E w \in Workers :
            /\ pc[w] = "conv_insert" /\ pc'[w] # "conv_insert"
            /\ IsUserEvent(w)
            /\ ActiveConvIds(loc[w].business, loc[w].user) = {}]_vars

====
